---- MODULE Spec2Model ----
(***************************************************************************)
(* Lowering of index derivatives into reduction clusters, followed by      *)
(* common derivative elimination (devito/passes/clusters/derivatives.py).  *)
(* A second specification, SpecMSF, follows the scatter state of a         *)
(* MatrixSparseTimeFunction (devito/types/sparse.py).                      *)
(***************************************************************************)
EXTENDS Integers, Sequences, FiniteSets, TLC

(* ------------------------------------------------------------------ *)
(* Bounds                                                              *)
(* ------------------------------------------------------------------ *)

\* Largest number of source equations in the input cluster sequence.
MaxEqs == 3

\* The largest number of equations of an input made of HazardEqs.
MaxHazard == 4

\* The largest number of equations of an input made of TypedEqs.
MaxTyped == 2

(* ------------------------------------------------------------------ *)
(* Sequence helpers                                                    *)
(* ------------------------------------------------------------------ *)

RECURSIVE Reverse(_)
Reverse(s) == IF s = <<>> THEN <<>> ELSE Reverse(Tail(s)) \o <<Head(s)>>

\* The elements of s that satisfy Keep, in order.
SelectIdx(s, Keep(_)) ==
    LET RECURSIVE Go(_)
        Go(i) == IF i > Len(s) THEN <<>>
                 ELSE IF Keep(i) THEN <<s[i]>> \o Go(i + 1) ELSE Go(i + 1)
    IN Go(1)

\* devito.tools.filter_ordered: drop duplicates, keep first-seen order.
filter_ordered(s) == SelectIdx(s, LAMBDA i : \A j \in 1..(i - 1) : s[j] # s[i])

(* ------------------------------------------------------------------ *)
(* Dimensions                                                          *)
(* ------------------------------------------------------------------ *)

\* isinstance(d, StencilDimension)
IsStencil(d) == d \in {"i0", "i1"}

\* StencilDimension._min
DimMin(d) == CASE d = "i0" -> -1 [] d = "i1" -> -2 [] OTHER -> 0

\* StencilDimension._max
DimMax(d) == CASE d = "i0" -> 1 [] d = "i1" -> 0 [] OTHER -> 0

\* StencilDimension.backward
DimBackward(d) == d = "i1"

(* ------------------------------------------------------------------ *)
(* Iteration spaces: a sequence of intervals, outermost first.  An     *)
(* interval holds the offsets added to the dimension's own bounds and  *)
(* the direction of the iteration.                                     *)
(* ------------------------------------------------------------------ *)

\* Interval(d): the whole range of d, no offsets.
Interval(d, dir) == [dim |-> d, lower |-> 0, upper |-> 0, dir |-> dir]

\* First and last value taken by the loop counter of a stencil interval.
IvStart(iv) == DimMin(iv.dim) + iv.lower
IvEnd(iv) == DimMax(iv.dim) + iv.upper

\* d in ispace
InSpace(d, ispace) == \E i \in 1..Len(ispace) : ispace[i].dim = d

\* IterationSpace.union(a, b, relations=(a.itdims + b.itdims,)) for spaces
\* over disjoint dimensions: the relation puts b's dimensions inside a's.
IspaceUnion(a, b) == a \o b

\* IterationSpace.translate(d, v)
IspaceTranslate(ispace, d, v) ==
    [i \in 1..Len(ispace) |->
        IF ispace[i].dim = d
        THEN [ispace[i] EXCEPT !.lower = @ + v, !.upper = @ + v]
        ELSE ispace[i]]

\* IterationSpace.project(lambda d: d is not drop)
IspaceProject(ispace, drop) ==
    SelectIdx(ispace, LAMBDA i : ispace[i].dim # drop)

(* ------------------------------------------------------------------ *)
(* Expressions                                                         *)
(*   sym   : a scalar Symbol                                           *)
(*   num   : a number                                                  *)
(*   idx   : an indexed access  fn[dims[1] + off[1] + dims[2] + ...]   *)
(*   w     : an indexed weights table  name[dims]                      *)
(*   op    : a generic operator over args                              *)
(*   deriv : an IndexDerivative, args = <<base, weights>>              *)
(* ------------------------------------------------------------------ *)

Name(p, n) == [p |-> p, n |-> n]

Sym(p, n, dt) == [tag |-> "sym", name |-> Name(p, n), dtype |-> dt]
Num(v) == [tag |-> "num", val |-> v]
Idx(fn, ds) == [tag |-> "idx", fn |-> fn, dims |-> ds,
                off |-> [i \in 1..Len(ds) |-> 0]]
Wts(nm, k, ds) == [tag |-> "w", name |-> nm, k |-> k, dims |-> ds]
Op(o, as) == [tag |-> "op", op |-> o, args |-> as]
Deriv(base, w, dt) == [tag |-> "deriv", args |-> <<base, w>>, dtype |-> dt]

\* Eq(lhs, rhs) and Inc(lhs, rhs); e.args = (lhs, rhs)
Eq(l, r) == [lhs |-> l, rhs |-> r, op |-> "eq"]
Inc(l, r) == [lhs |-> l, rhs |-> r, op |-> "inc"]

\* Cluster: ordered equations bound to one iteration space.
Cluster(es, isp) == [exprs |-> es, ispace |-> isp]

\* devito.symbolics.q_leaf
q_leaf(e) == e.tag \in {"sym", "num", "idx", "w"}

\* IndexDerivative.base and IndexDerivative.weights
DerivBase(e) == e.args[1]
DerivWeights(e) == e.args[2]

\* devito.symbolics.retrieve_dimensions(expr, deep=True): every dimension
\* of the subtree, depth first, left to right, with repetitions.
RECURSIVE retrieve_dimensions(_)
retrieve_dimensions(e) ==
    CASE e.tag \in {"idx", "w"} -> e.dims
      [] e.tag \in {"sym", "num"} -> <<>>
      [] OTHER ->
            LET RECURSIVE Go(_)
                Go(i) == IF i > Len(e.args) THEN <<>>
                         ELSE retrieve_dimensions(e.args[i]) \o Go(i + 1)
            IN Go(1)

\* base.subs(d, d + v): every access through d is shifted by v.
RECURSIVE SubsShift(_, _, _)
SubsShift(e, d, v) ==
    CASE e.tag = "idx" ->
            [e EXCEPT !.off = [i \in 1..Len(e.dims) |->
                                 IF e.dims[i] = d THEN e.off[i] + v ELSE e.off[i]]]
      [] e.tag \in {"sym", "num", "w"} -> e
      [] OTHER ->
            [e EXCEPT !.args = [i \in 1..Len(e.args) |-> SubsShift(e.args[i], d, v)]]

\* devito.symbolics.uxreplace(e, rule): top down, a node that is a key of
\* the rule is replaced by its value, any other node is rebuilt from its
\* rewritten arguments.  The rule is a sequence of <<key, value>> pairs in
\* insertion order; as in {**subs0, **subs} a later pair wins.
RuleHas(rule, k) == \E i \in 1..Len(rule) : rule[i][1] = k
RuleGet(rule, k) ==
    LET hits == {i \in 1..Len(rule) : rule[i][1] = k}
    IN rule[CHOOSE i \in hits : \A j \in hits : j <= i][2]

RECURSIVE uxreplace(_, _)
uxreplace(e, rule) ==
    IF RuleHas(rule, e) THEN RuleGet(rule, e)
    ELSE IF q_leaf(e) THEN e
    ELSE [e EXCEPT !.args = [i \in 1..Len(e.args) |-> uxreplace(e.args[i], rule)]]

\* uxreplace applied to an equation rewrites both of its sides.
uxreplaceEq(e, rule) ==
    [e EXCEPT !.lhs = uxreplace(e.lhs, rule), !.rhs = uxreplace(e.rhs, rule)]

(* ------------------------------------------------------------------ *)
(* _core: the recursive rewrite of one expression                      *)
(*                                                                     *)
(* The mutable objects that _core shares with its caller travel in a   *)
(* record st:                                                          *)
(*   weights   : the dict coefficient tuple -> concrete weights        *)
(*   mapper    : the dict accumulate rhs -> list of accumulators       *)
(*   reusables : the set of symbols offered for reuse                  *)
(*   wcount, rcount : sregistry counters for prefixes 'w' and 'r'      *)
(*   fault     : the exception raised, "none" while running            *)
(*   order     : the iteration order of sets in this run (see SetPop)  *)
(*   log       : one record per lowered derivative (history); base is  *)
(*               the base of the derivative before line 138 shifts it  *)
(*   prov, bprov : the origin of every equation of processed and of    *)
(*               the buffer exprs (history), see Origin                *)
(* ------------------------------------------------------------------ *)

\* dict lookup in a sequence of records with a field key
HasKey(d, k) == \E i \in 1..Len(d) : d[i].key = k
Lookup(d, k) == d[CHOOSE i \in 1..Len(d) : d[i].key = k]

\* ResolveWeights without the lookup: every derivative mints its weights.
ResolveWeights_AlwaysMint(weights, k, name, dt) ==
    Append(weights, [key |-> k, name |-> name, dtype |-> dt])

\* lines 96-99: reuse the concrete weights of an equal coefficient tuple,
\* or build them with the fresh name and the dtype of this derivative.
ResolveWeights(weights, k, name, dt) ==
    IF HasKey(weights, k) THEN weights
    ELSE Append(weights, [key |-> k, name |-> name, dtype |-> dt])

\* NewDims without the reversal of line 105.
NewDims_NoReverse(expr, c) ==
    LET all == retrieve_dimensions(expr)
        st == filter_ordered(SelectIdx(all, LAMBDA i : IsStencil(all[i])))
    IN SelectIdx(st, LAMBDA i : ~InSpace(st[i], c.ispace))

\* lines 102-109: the StencilDimensions of the (already rewritten)
\* derivative, deduplicated, reversed, minus those pinned by the cluster.
NewDims(expr, c) ==
    LET all == retrieve_dimensions(expr)
        st == filter_ordered(SelectIdx(all, LAMBDA i : IsStencil(all[i])))
        rev == Reverse(st)
    IN SelectIdx(rev, LAMBDA i : ~InSpace(rev[i], c.ispace))

\* Fragment that makes every new dimension run Forward.
Fragment_AllForward(dims) ==
    [i \in 1..Len(dims) |-> Interval(dims[i], "Forward")]

\* lines 111-113: one interval per new dimension, Backward iff flagged.
Fragment(dims) ==
    [i \in 1..Len(dims) |->
        Interval(dims[i], IF DimBackward(dims[i]) THEN "Backward" ELSE "Forward")]

\* ZeroStart without the translation.
ZeroStart_NoShift(ispace, dims) == ispace

\* lines 121-122: make every new dimension start from 0.
RECURSIVE ZeroStart(_, _)
ZeroStart(ispace, dims) ==
    IF dims = <<>> THEN ispace
    ELSE ZeroStart(IspaceTranslate(ispace, Head(dims), -DimMin(Head(dims))),
                   Tail(dims))

\* InitSpace projecting out the first new dimension instead of the last.
InitSpace_DropFirst(ispace, dims) == IspaceProject(ispace, dims[1])

\* line 131: the space of the init cluster.
InitSpace(ispace, dims) == IspaceProject(ispace, dims[Len(dims)])

\* ShiftBase that leaves the base as it is.
ShiftBase_None(base, dims) == base

\* lines 136-138: realign the base with the shifted space.
RECURSIVE ShiftBase(_, _)
ShiftBase(base, dims) ==
    IF dims = <<>> THEN base
    ELSE ShiftBase(SubsShift(base, Head(dims), DimMin(Head(dims))), Tail(dims))

\* line 143: mapper.setdefault(rhs, []).append(s)
MapperAdd(mapper, rhs, s) ==
    IF HasKey(mapper, rhs)
    THEN [i \in 1..Len(mapper) |->
            IF mapper[i].key = rhs
            THEN [mapper[i] EXCEPT !.vals = Append(@, s)]
            ELSE mapper[i]]
    ELSE Append(mapper, [key |-> rhs, vals |-> <<s>>])

\* line 125: the element that reusables.pop() returns.  A set has no order
\* of its own: st.order tells from which end of an arbitrary ranking of the
\* symbols the interpreter takes the element.
SymRank(s) ==
    CASE s.name.p = "u" -> 0 [] s.name.p = "v" -> 1 [] OTHER -> 2 + s.name.n

SetPop(S, order) ==
    IF order = "low"
    THEN CHOOSE x \in S : \A y \in S : SymRank(x) <= SymRank(y)
    ELSE CHOOSE x \in S : \A y \in S : SymRank(x) >= SymRank(y)

\* PoolAfterPop that leaves the symbol in the pool.
PoolAfterPop_Keep(reusables, s) == reusables

\* line 125: reusables.pop() takes the symbol out of the pool.
PoolAfterPop(reusables, s) == reusables \ {s}

\* line 126: assert s.dtype is w.dtype
AssertDtype(s, w) == s.dtype = w.dtype

\* EmitClusters with the init cluster appended after the accumulate cluster.
EmitClusters_InitLast(init, processed, accum) == processed \o <<accum, init>>

\* EmitClusters with the accumulate cluster ahead of the clusters of the
\* nested derivatives.
EmitClusters_AccumFirst(init, processed, accum) == <<init, accum>> \o processed

\* lines 132 and 140: the init cluster goes in front of the clusters of
\* the nested derivatives, the accumulate cluster behind them.
EmitClusters(init, processed, accum) == <<init>> \o processed \o <<accum>>

\* lines 92-145: lowering of one IndexDerivative whose arguments were
\* already rewritten; processed holds the clusters of nested derivatives.
LowerDerivative(expr, processed, c, st) ==
    LET name == Name("w", st.wcount)
        w0 == DerivWeights(expr)
        k == w0.k
        weights == ResolveWeights(st.weights, k, name, expr.dtype)
        w == Lookup(weights, k)
        wi == Wts(w.name, k, w0.dims)
        expr1 == [expr EXCEPT !.args = <<DerivBase(expr), wi>>]
        dims == NewDims(expr1, c)
        ispace == ZeroStart(IspaceUnion(c.ispace, Fragment(dims)), dims)
        reuse == st.reusables # {}
        popped == SetPop(st.reusables, st.order)
        s == IF reuse THEN popped ELSE Sym("r", st.rcount, w.dtype)
        base == ShiftBase(DerivBase(expr1), dims)
        acc == Inc(s, Op("mul", <<base, wi>>))
        st1 == [st EXCEPT !.weights = weights,
                          !.wcount = @ + 1,
                          !.reusables = IF reuse THEN PoolAfterPop(@, s) ELSE @,
                          !.rcount = IF reuse THEN @ ELSE @ + 1]
    IN IF reuse /\ ~AssertDtype(s, w)
       THEN [e |-> expr, cl |-> <<>>, st |-> [st1 EXCEPT !.fault = "AssertionError"]]
       ELSE IF dims = <<>> /\ ispace # <<>>
       THEN [e |-> expr, cl |-> <<>>, st |-> [st1 EXCEPT !.fault = "IndexError"]]
       ELSE LET init == Cluster(<<Eq(s, Num(0))>>,
                                IF dims = <<>> THEN ispace ELSE InitSpace(ispace, dims))
                accum == Cluster(<<acc>>, ispace)
                rec == [acc |-> s, reused |-> reuse, k |-> k, w |-> w,
                        dtype |-> expr.dtype, dims |-> dims,
                        base |-> DerivBase(expr1),
                        nested |-> Len(processed) \div 2,
                        init |-> init, accum |-> accum, cspace |-> c.ispace,
                        src |-> st.src]
            IN [e |-> s,
                cl |-> EmitClusters(init, processed, accum),
                st |-> [st1 EXCEPT !.mapper = MapperAdd(@, acc.rhs, s),
                                   !.log = Append(@, rec)]]

\* lines 73-90: post-order rewrite; an exception unwinds the recursion.
RECURSIVE _core(_, _, _)
_core(expr, c, st) ==
    IF q_leaf(expr) THEN [e |-> expr, cl |-> <<>>, st |-> st]
    ELSE LET RECURSIVE Go(_, _)
             Go(i, r) ==
                 IF i > Len(expr.args) \/ r.st.fault # "none" THEN r
                 ELSE LET h == _core(expr.args[i], c, r.st)
                      IN Go(i + 1, [args |-> Append(r.args, h.e),
                                    cl |-> r.cl \o h.cl, st |-> h.st])
             r == Go(1, [args |-> <<>>, cl |-> <<>>, st |-> st])
             rebuilt == [expr EXCEPT !.args = r.args]
         IN IF r.st.fault # "none" THEN [e |-> expr, cl |-> <<>>, st |-> r.st]
            ELSE IF expr.tag # "deriv" THEN [e |-> rebuilt, cl |-> r.cl, st |-> r.st]
            ELSE LowerDerivative(rebuilt, r.cl, c, r.st)

(* ------------------------------------------------------------------ *)
(* The inputs: source equations and cluster sequences                  *)
(* ------------------------------------------------------------------ *)

F32 == "f32"
F64 == "f64"

\* Two weights tables, told apart by their coefficient tuples.
K1 == <<1, -2, 1>>
K2 == <<-1, 0, 1>>

\* The abstract weights that a derivative carries before lowering.
W0(k, ds) == Wts(Name("W", 0), k, ds)

SymU == Sym("u", 0, F32)
SymV == Sym("v", 0, F32)
IdxG == Idx("g", <<"x">>)

Da == Deriv(Idx("a", <<"x", "i0">>), W0(K1, <<"i0">>), F32)
Db == Deriv(Idx("b", <<"x", "i1">>), W0(K2, <<"i1">>), F32)
Dd64 == Deriv(Idx("d", <<"x", "i0">>), W0(K1, <<"i0">>), F64)
\* A derivative of a derivative: the outer one runs over i1 and the base of
\* the inner one is read through both stencil dimensions.
DDa == Deriv(Deriv(Idx("a", <<"x", "i0", "i1">>), W0(K1, <<"i0">>), F32),
             W0(K2, <<"i1">>), F32)
Dc2 == Deriv(Idx("c", <<"x", "i0", "i1">>), W0(K1, <<"i0", "i1">>), F32)
\* A derivative whose base reads the symbol u.
Du == Deriv(Op("mul", <<SymU, Idx("b", <<"x", "i1">>)>>), W0(K2, <<"i1">>), F32)

\* The source equations an input is made of.
SrcEqs ==
    << Eq(SymV, Op("add", <<Idx("a", <<"x">>), Idx("b", <<"x">>)>>)),
       Eq(SymU, Da),
       Eq(IdxG, Da),
       Eq(SymU, Op("f", <<Db>>)),
       Eq(SymU, Op("mul", <<Db, Op("f", <<Db>>)>>)),
       Eq(SymU, DDa),
       Inc(SymU, Da),
       Eq(SymU, Dd64),
       Eq(SymU, Op("add", <<SymU, Da>>)),
       Eq(IdxG, Dc2),
       Eq(IdxG, SymV) >>

\* A cluster over the grid dimension, and one that also pins the stencil
\* dimension i0 with offsets of its own.
SpaceX == <<Interval("x", "Forward")>>
SpacePinned == <<Interval("x", "Forward"),
                 [dim |-> "i0", lower |-> 1, upper |-> 0, dir |-> "Forward"]>>

\* The sequences over 1..m of length 1..n.
RECURSIVE SeqsUpTo(_, _)
SeqsUpTo(m, n) ==
    IF n = 0 THEN {<<>>}
    ELSE LET prev == SeqsUpTo(m, n - 1)
         IN prev \cup {Append(q, i) : q \in prev, i \in 1..m}

\* The input made of the equations numbered by idxs: the first k in one
\* cluster over SpaceX, the others in a cluster over SpacePinned.  A
\* cluster always holds at least one equation.
MkClusters(idxs, k) ==
    LET eqs == [i \in 1..Len(idxs) |-> SrcEqs[idxs[i]]]
        c1 == Cluster(SubSeq(eqs, 1, k), SpaceX)
        c2 == Cluster(SubSeq(eqs, k + 1, Len(eqs)), SpacePinned)
    IN (IF k = 0 THEN <<>> ELSE <<c1>>) \o (IF k = Len(eqs) THEN <<>> ELSE <<c2>>)

\* Up to MaxEqs source equations, in one cluster of either kind or split
\* after the first equation.
ShortInputs ==
    {MkClusters(q, k) : <<q, k>> \in
        {p \in (SeqsUpTo(Len(SrcEqs), MaxEqs) \ {<<>>}) \X (0..MaxEqs) :
            p[2] \in {0, 1, Len(p[1])}}}

\* Equations for longer inputs: the same derivative with an indexed and with
\* a symbol destination, a derivative that reads that symbol, lowered twice
\* by one equation, and a write to the function the first derivative reads.
HazardEqs ==
    << Eq(IdxG, Da),
       Eq(SymU, Da),
       Eq(IdxG, Op("mul", <<Du, Op("f", <<Du>>)>>)),
       Eq(Idx("a", <<"x">>), Idx("b", <<"x">>)) >>

\* One cluster over SpaceX with up to MaxHazard of these equations.
HazardInputs ==
    {<<Cluster([i \in 1..Len(q) |-> HazardEqs[q[i]]], SpaceX)>> :
        q \in SeqsUpTo(Len(HazardEqs), MaxHazard) \ {<<>>}}

\* Equations with an indexed destination whose derivatives share one
\* coefficient tuple and differ in their result type.
TypedEqs ==
    << Eq(IdxG, Da),
       Eq(IdxG, Dd64) >>

\* One cluster over SpaceX with up to MaxTyped of these equations.
TypedInputs ==
    {<<Cluster([i \in 1..Len(q) |-> TypedEqs[q[i]]], SpaceX)>> :
        q \in SeqsUpTo(Len(TypedEqs), MaxTyped) \ {<<>>}}

Inputs == ShortInputs \cup HazardInputs \cup TypedInputs

\* The values of the argument mode: None and 'noop'.
Modes == {"default", "noop"}

(* ------------------------------------------------------------------ *)
(* The state of one call of lower_index_derivatives                    *)
(* ------------------------------------------------------------------ *)

VARIABLES
    clusters,   \* the argument: the input cluster sequence
    mode,       \* the argument mode, "unread" until line 19 looks at it
    pc,         \* "lower", "lowered", "cde", "done" or "failed"
    ci, ei,     \* the cluster and the equation the loops of lines 41, 43 are at
    exprs,      \* the buffer exprs of the cluster being rebuilt
    processed,  \* the list processed of _lower_index_derivatives
    st,         \* weights, mapper, the naming counters, the fault, the log
    dropped,    \* history: <<ci, ei>> of the equations discarded at line 64
    calls,      \* history: the phases invoked so far, in order
    cur,        \* the local variable clusters of lower_index_derivatives
    cde,        \* what CDE.process did (see RunCDE)
    result,     \* the value returned
    msf,        \* a MatrixSparseTimeFunction and the calls made on it
    sf          \* a SparseFunction of one rank, scattered and gathered

passVars == <<clusters, mode, pc, ci, ei, exprs, processed, st, dropped,
              calls, cur, cde, result>>

vars == <<passVars, msf, sf>>

\* No MatrixSparseTimeFunction takes part in the pass.
NoMSF == [nprocs |-> 0]

\* No SparseFunction takes part in the pass.
NoSF == [pc |-> "off"]

\* lines 32-34 and a fresh sregistry: nothing lowered, no name issued.
FreshSt(order) ==
    [weights |-> <<>>, mapper |-> <<>>, reusables |-> {},
     wcount |-> 0, rcount |-> 0, fault |-> "none", log |-> <<>>,
     src |-> <<0, 0>>, order |-> order, prov |-> <<>>, bprov |-> <<>>]

NoCDE == [out |-> <<>>, subs0 |-> <<>>, events |-> <<>>, groups |-> 0]

Init ==
    /\ clusters \in Inputs
    /\ mode = "unread"
    /\ pc = "lower"
    /\ ci = 1
    /\ ei = 1
    /\ exprs = <<>>
    /\ processed = <<>>
    /\ st = FreshSt("low")
    /\ dropped = <<>>
    /\ calls = <<"lower">>
    /\ cur = <<>>
    /\ cde = NoCDE
    /\ result = <<>>
    /\ msf = NoMSF
    /\ sf = NoSF

(* ------------------------------------------------------------------ *)
(* _lower_index_derivatives                                            *)
(* ------------------------------------------------------------------ *)

\* Dump that emits one cluster per buffered equation.
Dump_PerEq(proc, buf, c) ==
    proc \o [i \in 1..Len(buf) |-> Cluster(<<buf[i]>>, c.ispace)]

\* Dump that adds the buffered equations to the cluster emitted last.
Dump_IntoLast(proc, buf, c) ==
    IF buf = <<>> THEN proc
    ELSE IF proc = <<>> THEN <<Cluster(buf, c.ispace)>>
    ELSE [proc EXCEPT ![Len(proc)] = Cluster(@.exprs \o buf, @.ispace)]

\* lines 36-39: dump(exprs, c) appends the buffered equations as one
\* cluster; the buffer is emptied by the caller of this operator.
Dump(proc, buf, c) ==
    IF buf # <<>> THEN Append(proc, Cluster(buf, c.ispace)) ELSE proc

\* Reusable that also offers a second symbol.
Reusable_Two(e) ==
    IF e.lhs.tag = "sym" /\ e.op = "eq" THEN {e.lhs, SymV} ELSE {}

\* Reusable that does not look at the operation of the equation.
Reusable_AnyOp(e) ==
    IF e.lhs.tag = "sym" THEN {e.lhs} ELSE {}

\* lines 46-49: Optimization 1, the pool offered by equation e.
Reusable(e) ==
    IF e.lhs.tag = "sym" /\ e.op = "eq" THEN {e.lhs} ELSE {}

\* IsSelfAssign that never holds: no equation is discarded.
IsSelfAssign_Never(e, rhs) == FALSE

\* line 57: e.lhs is expr.rhs
IsSelfAssign(e, rhs) == e.lhs = rhs

\* FlushAndExtend that appends the new clusters before it dumps the buffer.
FlushAndExtend_ExtendFirst(proc, buf, c, v) == Dump(proc \o v, buf, c)

\* lines 53-55: if v: dump(exprs, c); processed.extend(v)
FlushAndExtend(proc, buf, c, v) ==
    IF v # <<>> THEN Dump(proc, buf, c) \o v ELSE proc

\* History: the clusters cl with every equation replaced by its origin, the
\* source equation src and the kind "red" (an init or accumulate equation
\* that the lowering made) or "eq" (the source equation, rewritten or not).
Origin(cl, src, kind) ==
    [i \in 1..Len(cl) |->
        Cluster([j \in 1..Len(cl[i].exprs) |-> [src |-> src, kind |-> kind]],
                cl[i].ispace)]

\* lines 43-66: one iteration of the loop over the equations of a cluster,
\* on s = [processed, exprs, st, dropped]; e is equation src[2] of cluster
\* c, which is cluster src[1].  After an exception only st.fault matters.
\* The history st.prov and st.bprov goes through the same list operations
\* as processed and exprs.
LowerEqStep(s, c, e, src) ==
    LET AfterCore(r) ==
            LET Flushed(cl) == FlushAndExtend(s.processed, s.exprs, c, cl)
                Buf(cl) == IF cl # <<>> THEN <<>> ELSE s.exprs
                Prov(cl) == FlushAndExtend(s.st.prov, s.st.bprov, c,
                                           Origin(cl, src, "red"))
                BProv(cl) == IF cl # <<>> THEN <<>> ELSE s.st.bprov
            IN IF r.st.fault # "none" THEN [s EXCEPT !.st = r.st]
               ELSE IF IsSelfAssign(e, r.e)
               THEN [processed |-> Flushed(r.cl), exprs |-> Buf(r.cl),
                     st |-> [r.st EXCEPT !.prov = Prov(r.cl),
                                         !.bprov = BProv(r.cl)],
                     dropped |-> Append(s.dropped, src)]
               ELSE [processed |-> Flushed(r.cl),
                     exprs |-> Append(Buf(r.cl), [e EXCEPT !.rhs = r.e]),
                     st |-> [r.st EXCEPT !.prov = Prov(r.cl),
                                         !.bprov = Append(BProv(r.cl),
                                                          [src |-> src,
                                                           kind |-> "eq"])],
                     dropped |-> s.dropped]
    IN AfterCore(_core(e.rhs, c, [s.st EXCEPT !.reusables = Reusable(e),
                                              !.src = src]))

LowerEq ==
    /\ pc = "lower"
    /\ ci <= Len(clusters)
    /\ ei <= Len(clusters[ci].exprs)
    /\ \E n \in {LowerEqStep([processed |-> processed, exprs |-> exprs,
                                st |-> st, dropped |-> dropped],
                               clusters[ci], clusters[ci].exprs[ei],
                               <<ci, ei>>)} :
          /\ st' = n.st
          /\ processed' = n.processed
          /\ exprs' = n.exprs
          /\ dropped' = n.dropped
          /\ IF n.st.fault # "none"
             THEN pc' = "failed" /\ ei' = ei
             ELSE pc' = pc /\ ei' = ei + 1
    /\ UNCHANGED <<clusters, mode, ci, calls, cur, cde, result,
                   msf, sf>>

\* line 68: the buffer left at the end of a cluster is dumped.
EndCluster ==
    /\ pc = "lower"
    /\ ci <= Len(clusters)
    /\ ei > Len(clusters[ci].exprs)
    /\ processed' = Dump(processed, exprs, clusters[ci])
    /\ exprs' = <<>>
    /\ st' = [st EXCEPT !.prov = Dump(@, st.bprov, clusters[ci]),
                        !.bprov = <<>>]
    /\ ci' = ci + 1
    /\ ei' = 1
    /\ UNCHANGED <<clusters, mode, pc, dropped, calls, cur, cde, result,
                   msf, sf>>

\* lines 70 and 14: _lower_index_derivatives returns.
LoweringReturns ==
    /\ pc = "lower"
    /\ ci > Len(clusters)
    /\ pc' = "lowered"
    /\ cur' = processed
    /\ UNCHANGED <<clusters, mode, ci, ei, exprs, processed, st, dropped, calls,
                   cde, result,
                   msf, sf>>

(* ------------------------------------------------------------------ *)
(* fuse(clusters, toposort='maximal')                                  *)
(*                                                                     *)
(* The clusters are reordered by a topological sort of their data      *)
(* dependences that, among the clusters ready to be scheduled, prefers *)
(* one over the iteration space of the cluster scheduled last; then    *)
(* neighbours over one iteration space are fused into one cluster.     *)
(* ------------------------------------------------------------------ *)

\* The symbols and functions an expression reads.
RECURSIVE ReadsOf(_)
ReadsOf(e) ==
    CASE e.tag = "sym" -> {e.name}
      [] e.tag = "idx" -> {Name(e.fn, -1)}
      [] e.tag = "w" -> {e.name}
      [] e.tag = "num" -> {}
      [] OTHER -> UNION {ReadsOf(e.args[i]) : i \in 1..Len(e.args)}

WriteOf(eq) == IF eq.lhs.tag = "sym" THEN eq.lhs.name ELSE Name(eq.lhs.fn, -1)

ClusterReads(c) ==
    UNION {ReadsOf(c.exprs[i].rhs) \cup
           (IF c.exprs[i].op = "inc" THEN {WriteOf(c.exprs[i])} ELSE {})
           : i \in 1..Len(c.exprs)}

ClusterWrites(c) == {WriteOf(c.exprs[i]) : i \in 1..Len(c.exprs)}

\* A flow, anti or output dependence from c1 to a later cluster c2.
Depends(c1, c2) ==
    \/ ClusterWrites(c1) \cap (ClusterReads(c2) \cup ClusterWrites(c2)) # {}
    \/ ClusterReads(c1) \cap ClusterWrites(c2) # {}

Min(S) == CHOOSE x \in S : \A y \in S : x <= y

RECURSIVE Toposort(_, _, _)
Toposort(cs, todo, sched) ==
    IF todo = {} THEN sched
    ELSE LET ready == {i \in todo : \A j \in todo : j < i => ~Depends(cs[j], cs[i])}
             same == IF sched = <<>> THEN {}
                     ELSE {i \in ready : cs[i].ispace = sched[Len(sched)].ispace}
             pick == IF same # {} THEN Min(same) ELSE Min(ready)
         IN Toposort(cs, todo \ {pick}, Append(sched, cs[pick]))

RECURSIVE FuseNeighbours(_)
FuseNeighbours(cs) ==
    IF Len(cs) <= 1 THEN cs
    ELSE LET rest == FuseNeighbours(Tail(cs))
         IN IF Head(cs).ispace = Head(rest).ispace
            THEN <<Cluster(Head(cs).exprs \o Head(rest).exprs, Head(cs).ispace)>>
                 \o Tail(rest)
            ELSE <<Head(cs)>> \o rest

fuse(cs) == FuseNeighbours(Toposort(cs, 1..Len(cs), <<>>))

(* ------------------------------------------------------------------ *)
(* CDE: common derivative elimination                                  *)
(*                                                                     *)
(* The traversal works on tagged clusters [c, id, seen]: id is the     *)
(* position of the cluster in the sequence given to process, seen says *)
(* that the object is in the set seen.  ctx holds the dict subs0 that  *)
(* all callbacks share, the number of callbacks made and the history   *)
(* of what was done with every equation.                               *)
(* ------------------------------------------------------------------ *)

\* line 157: the right-hand sides lowered with two accumulators or more.
\* Candidates that also holds the right-hand side of the init equations.
Candidates_WithInits(mapper) ==
    {Num(0)} \cup
    {mapper[i].key : i \in {j \in 1..Len(mapper) : Len(mapper[j].vals) > 1}}

\* line 157: the right-hand sides that the lowering map holds for more than
\* one accumulator.
Candidates(mapper) ==
    {mapper[i].key : i \in {j \in 1..Len(mapper) : Len(mapper[j].vals) > 1}}

\* lines 172-187: what the callback does with equation e of cluster id.
\* a = [subs, subs0, events, exprs]
CallbackEq(e, id, g, cand, a) ==
    LET k == e.lhs
        v == e.rhs
        ev(kind, out) == [g |-> g, id |-> id, e |-> e, kind |-> kind, out |-> out]
    IN IF RuleHas(a.subs0, k)
       THEN [a EXCEPT !.events = Append(@, ev("drop_global", e))]
       ELSE IF RuleHas(a.subs, v)
       THEN [a EXCEPT !.subs0 = Append(@, <<k, RuleGet(a.subs, v)>>),
                      !.events = Append(@, ev("drop_local", e))]
       ELSE IF v \in cand
       THEN [a EXCEPT !.subs = Append(@, <<v, k>>),
                      !.exprs = Append(@, e),
                      !.events = Append(@, ev("register", e))]
       ELSE LET e1 == uxreplaceEq(e, a.subs0 \o a.subs)
            IN [a EXCEPT !.exprs = Append(@, e1),
                         !.events = Append(@, ev("keep", e1))]

\* lines 162-193: one callback over the clusters ws of a prefix group.
callback(ws, cand, ctx) ==
    LET g == ctx.groups + 1
        RECURSIVE Eqs(_, _, _)
        Eqs(w, i, a) ==
            IF i > Len(w.c.exprs) THEN a
            ELSE Eqs(w, i + 1, CallbackEq(w.c.exprs[i], w.id, g, cand, a))
        RECURSIVE Cls(_, _)
        Cls(i, r) ==
            IF i > Len(ws) THEN r
            ELSE IF ws[i].seen
            THEN Cls(i + 1, [r EXCEPT !.ws = Append(@, ws[i])])
            ELSE LET a == Eqs(ws[i], 1, [subs |-> r.subs, subs0 |-> r.subs0,
                                         events |-> r.events, exprs |-> <<>>])
                     w == [c |-> Cluster(a.exprs, ws[i].c.ispace),
                           id |-> ws[i].id, seen |-> TRUE]
                 IN Cls(i + 1, [ws |-> Append(r.ws, w), subs |-> a.subs,
                                subs0 |-> a.subs0, events |-> a.events])
        r == Cls(1, [ws |-> <<>>, subs |-> <<>>, subs0 |-> ctx.subs0,
                     events |-> ctx.events])
    IN [ws |-> r.ws,
        ctx |-> [subs0 |-> r.subs0, events |-> r.events, groups |-> g]]

\* Queue._make_key: the leading level intervals of the cluster's space.
MakeKey(w, level) ==
    SubSeq(w.c.ispace, 1, IF level < Len(w.c.ispace) THEN level ELSE Len(w.c.ispace))

\* itertools.groupby: the length of the run of equal keys that starts ws.
RECURSIVE RunLen(_, _)
RunLen(ws, level) ==
    IF Len(ws) <= 1 THEN Len(ws)
    ELSE IF MakeKey(ws[1], level) = MakeKey(ws[2], level)
    THEN 1 + RunLen(Tail(ws), level)
    ELSE 1

\* Queue._process_fdta: first divide, then apply.  Runs of clusters that
\* share their leading level intervals are processed one level deeper,
\* then the callback is applied to the whole sequence.
RECURSIVE process_fdta(_, _, _, _)
process_fdta(ws, level, cand, ctx) ==
    LET RECURSIVE Divide(_, _)
        Divide(rest, r) ==
            IF rest = <<>> THEN r
            ELSE LET n == RunLen(rest, level)
                     grp == SubSeq(rest, 1, n)
                     tl == SubSeq(rest, n + 1, Len(rest))
                     pfx == MakeKey(grp[1], level)
                 IN IF level > Len(pfx)
                    THEN Divide(tl, [r EXCEPT !.ws = @ \o grp])
                    ELSE LET d == process_fdta(grp, level + 1, cand, r.ctx)
                         IN Divide(tl, [ws |-> r.ws \o d.ws, ctx |-> d.ctx])
        divided == Divide(ws, [ws |-> <<>>, ctx |-> ctx])
    IN callback(divided.ws, cand, divided.ctx)

\* line 160: CDE(mapper).process(clusters)
CDEProcess(cs, mapper) ==
    LET ws == [i \in 1..Len(cs) |-> [c |-> cs[i], id |-> i, seen |-> FALSE]]
        r == process_fdta(ws, 1, Candidates(mapper),
                          [subs0 |-> <<>>, events |-> <<>>, groups |-> 0])
    IN [out |-> [i \in 1..Len(r.ws) |-> r.ws[i].c],
        subs0 |-> r.ctx.subs0, events |-> r.ctx.events, groups |-> r.ctx.groups]

(* ------------------------------------------------------------------ *)
(* lower_index_derivatives, after the lowering                         *)
(* ------------------------------------------------------------------ *)

\* lines 16-17: nothing was lowered, the clusters are returned as they are.
ReturnNoWeights ==
    /\ pc = "lowered"
    /\ st.weights = <<>>
    /\ pc' = "done"
    /\ result' = cur
    /\ UNCHANGED <<clusters, mode, ci, ei, exprs, processed, st, dropped, calls,
                   cur, cde,
                   msf, sf>>

\* FuseWanted that ignores the mode.
FuseWanted_Always(m) == TRUE

\* line 19: if mode != 'noop'
FuseWanted(m) == m # "noop"

\* lines 19-20: the clusters are fused unless the mode is 'noop'.
Fuse ==
    /\ pc = "lowered"
    /\ st.weights # <<>>
    /\ \E m \in Modes : FuseWanted(m) /\ mode' = m
    /\ cur' = fuse(cur)
    /\ calls' = Append(calls, "fuse")
    /\ pc' = "cde"
    /\ UNCHANGED <<clusters, ci, ei, exprs, processed, st, dropped, cde, result,
                   msf, sf>>

SkipFuse ==
    /\ pc = "lowered"
    /\ st.weights # <<>>
    /\ \E m \in Modes : ~FuseWanted(m) /\ mode' = m
    /\ pc' = "cde"
    /\ UNCHANGED <<clusters, ci, ei, exprs, processed, st, dropped, calls, cur,
                   cde, result,
                   msf, sf>>

\* lines 26-28: common derivative elimination, then return.
RunCDE ==
    /\ pc = "cde"
    /\ cde' = CDEProcess(cur, st.mapper)
    /\ result' = cde'.out
    /\ calls' = Append(calls, "cde")
    /\ pc' = "done"
    /\ UNCHANGED <<clusters, mode, ci, ei, exprs, processed, st, dropped, cur,
                   msf, sf>>

Next ==
    \/ LowerEq
    \/ EndCluster
    \/ LoweringReturns
    \/ ReturnNoWeights
    \/ Fuse
    \/ SkipFuse
    \/ RunCDE

Spec == Init /\ [][Next]_vars

(* ------------------------------------------------------------------ *)
(* MatrixSparseTimeFunction: manual_scatter, free_data, _dist_scatter  *)
(* (src/devito/types/sparse.py)                                        *)
(* ------------------------------------------------------------------ *)

\* The number of calls made on one object.
MaxCalls == 4

\* The number of ranks of the largest run.
MaxProcs == 2

\* The largest number of sparse points a rank is built with.
MaxPoint == 1

\* Python's None.
None == [tag |-> "None"]

\* lines 1333-1341: the end of __init_finalize__; the object of rank myrank
\* in a run of nprocs ranks, built with npoint points.  scattered (history)
\* says that manual_scatter has completed since the construction and since
\* the last free_data; last (history) is the last call and its outcome.
MSFObject(nprocs, myrank, npoint) ==
    [nprocs |-> nprocs, myrank |-> myrank, npoint |-> npoint,
     data |-> [tag |-> "array", of |-> "data"],
     scatter_result |-> None, scattered_data |-> None,
     scattered |-> FALSE, ncalls |-> 0,
     last |-> [op |-> "__init__", out |-> "returned", value |-> None]]

\* The outcome of a call: the object after it and what the call did.
Outcome(o, op, out, value) ==
    [o EXCEPT !.ncalls = @ + 1,
              !.last = [op |-> op, out |-> out, value |-> value]]

\* free_data that leaves scatter_result as it is.
FreeData_KeepResult(o) ==
    Outcome([o EXCEPT !.data = None, !.scattered_data = None,
                      !.scattered = FALSE],
            "free_data", "returned", None)

\* lines 1343-1366: free_data
FreeData(o) ==
    Outcome([o EXCEPT !.data = None, !.scatter_result = None,
                      !.scattered_data = None, !.scattered = FALSE],
            "free_data", "returned", None)

\* lines 1831-1843 and 1703-1712: the dictionary that manual_scatter stores.
ScatterDict(o, sd) == [tag |-> "dict", self |-> sd, rank |-> o.myrank]

\* lines 1698-1843: manual_scatter(data_all_zero); agree says that the r and
\* the ndim broadcast by rank 0 are the ones of this rank (lines 1741-1742).
ManualScatter(o, data_all_zero, agree) ==
    IF o.nprocs = 1
    THEN LET sd == [tag |-> "array", of |-> "data"]
         IN Outcome([o EXCEPT !.scattered_data = sd,
                              !.scatter_result = ScatterDict(o, sd),
                              !.scattered = TRUE],
                    "manual_scatter", "returned", None)
    ELSE IF o.myrank # 0 /\ o.npoint # 0
    THEN Outcome(o, "manual_scatter", "ValueError", None)
    ELSE IF o.myrank # 0 /\ ~agree
    THEN Outcome(o, "manual_scatter", "AssertionError", None)
    ELSE LET sd == IF o.myrank = 0 THEN [tag |-> "array", of |-> "data"]
                   ELSE IF data_all_zero THEN [tag |-> "array", of |-> "zeros"]
                   ELSE [tag |-> "array", of |-> "received"]
         IN Outcome([o EXCEPT !.scattered_data = sd,
                              !.scatter_result = ScatterDict(o, sd),
                              !.scattered = TRUE],
                    "manual_scatter", "returned", None)

\* lines 1845-1849: _dist_scatter(data)
DistScatter(o, data) ==
    IF data # None THEN Outcome(o, "_dist_scatter", "AssertionError", None)
    ELSE IF o.scatter_result = None
    THEN Outcome(o, "_dist_scatter", "Exception", None)
    ELSE Outcome(o, "_dist_scatter", "returned", o.scatter_result)

InitMSF ==
    /\ clusters = <<>>
    /\ mode = "unread"
    /\ pc = "off"
    /\ ci = 1
    /\ ei = 1
    /\ exprs = <<>>
    /\ processed = <<>>
    /\ st = FreshSt("low")
    /\ dropped = <<>>
    /\ calls = <<>>
    /\ cur = <<>>
    /\ cde = NoCDE
    /\ result = <<>>
    /\ \E n \in 1..MaxProcs : \E r \in 0..(n - 1) : \E np \in 0..MaxPoint :
           msf = MSFObject(n, r, np)
    /\ sf = NoSF

CallManualScatter ==
    /\ msf.ncalls < MaxCalls
    /\ \E z \in BOOLEAN : \E agree \in BOOLEAN :
           msf' = ManualScatter(msf, z, agree)
    /\ UNCHANGED <<passVars, sf>>

CallFreeData ==
    /\ msf.ncalls < MaxCalls
    /\ msf' = FreeData(msf)
    /\ UNCHANGED <<passVars, sf>>

CallDistScatter ==
    /\ msf.ncalls < MaxCalls
    /\ \E d \in {None, [tag |-> "array", of |-> "other"]} :
           msf' = DistScatter(msf, d)
    /\ UNCHANGED <<passVars, sf>>

NextMSF ==
    \/ CallManualScatter
    \/ CallFreeData
    \/ CallDistScatter

SpecMSF == InitMSF /\ [][NextMSF]_vars

(* ------------------------------------------------------------------ *)
(* SparseFunction: the scatter and gather masks, _dist_scatter and     *)
(* _dist_gather as one rank sees them (src/devito/types/sparse.py).    *)
(* Sparse points and positions of arrays count from 0 as in the code;  *)
(* position i of an array is element i + 1 of its sequence.            *)
(* ------------------------------------------------------------------ *)

\* The largest number of sparse points that the rank holds.
MaxSparse == 3

\* The number of ranks of the largest run.
MaxRanks == 2

\* lines 131-142: _build_dist_datamap.  need[i + 1] is the set of ranks that
\* glb_to_rank gives for the support of sparse point i; the mapper has a
\* key for every rank that requires a point, with its points in the order
\* of enumeration, without repetition.
build_dist_datamap(need) ==
    LET ids == [i \in 1..Len(need) |-> i - 1]
    IN [r \in UNION {need[i] : i \in 1..Len(need)} |->
           filter_ordered(SelectIdx(ids, LAMBDA i : r \in need[i]))]

\* line 154: flatten(dmap[i] for i in sorted(dmap))
RECURSIVE FlattenSorted(_, _)
FlattenSorted(dmap, keys) ==
    IF keys = {} THEN <<>>
    ELSE dmap[Min(keys)] \o FlattenSorted(dmap, keys \ {Min(keys)})

\* lines 144-157: _dist_scatter_mask, the index along the sparse position.
dist_scatter_mask(need) ==
    LET dmap == build_dist_datamap(need)
    IN FlattenSorted(dmap, DOMAIN dmap)

\* line 178, np.unique(mask, return_index=True)[1]: for every value of mask, in
\* ascending order of the values, the position of its first occurrence.
UniqueFirstIndex(mask) ==
    LET RECURSIVE Go(_)
        Go(vals) ==
            IF vals = {} THEN <<>>
            ELSE <<Min({j \in 1..Len(mask) : mask[j] = Min(vals)}) - 1>>
                 \o Go(vals \ {Min(vals)})
    IN Go({mask[j] : j \in 1..Len(mask)})

\* line 179, inds.sort(): ascending order (the elements are distinct positions).
RECURSIVE SortAscending(_)
SortAscending(S) ==
    IF S = {} THEN <<>> ELSE <<Min(S)>> \o SortAscending(S \ {Min(S)})

\* lines 168-182: _dist_gather_mask, the index along the sparse position.
dist_gather_mask(need) ==
    LET inds == UniqueFirstIndex(dist_scatter_mask(need))
    IN SortAscending({inds[j] : j \in 1..Len(inds)})

\* lines 719 and 763, data[mask]: indexing with an array of positions.
Take(data, mask) == [j \in 1..Len(mask) |-> data[mask[j] + 1]]

\* The SparseFunction of one rank in a run of nprocs ranks, built with the
\* values data.  sent is what _dist_scatter packed for the Alltoallv;
\* data0 (history) is the data at construction.
SFObject(nprocs, need, data) ==
    [pc |-> "built", nprocs |-> nprocs, need |-> need, data |-> data,
     data0 |-> data, sent |-> <<>>, fault |-> "none"]

\* lines 707-742: _dist_scatter(); with one rank it returns at once,
\* otherwise it packs data[self._dist_scatter_mask] and sends it out.
SFScatter(o) ==
    IF o.nprocs = 1 THEN [o EXCEPT !.pc = "scattered"]
    ELSE [o EXCEPT !.pc = "scattered",
                   !.sent = Take(o.data, dist_scatter_mask(o.need))]

\* lines 744-763: _dist_gather(data, coords) when the ranks send back the
\* values they received, unchanged: gathered has the layout of what was
\* sent, and self._data[:] = gathered[self._dist_gather_mask].
SFGather(o) ==
    IF o.nprocs = 1 THEN [o EXCEPT !.pc = "gathered"]
    ELSE LET gathered == o.sent
             picked == Take(gathered, dist_gather_mask(o.need))
         IN IF Len(picked) = Len(o.data)
            THEN [o EXCEPT !.pc = "gathered", !.data = picked]
            ELSE IF Len(picked) = 1
            THEN [o EXCEPT !.pc = "gathered",
                           !.data = [i \in 1..Len(o.data) |-> picked[1]]]
            ELSE [o EXCEPT !.pc = "failed", !.fault = "ValueError"]

\* The values of n sparse points: point i holds 100 + i.
PointData(n) == [i \in 1..n |-> 100 + (i - 1)]

\* The supports of n sparse points inside the grid: each is on one rank at
\* least.  With one rank every point is on rank 0.
NeedMaps(nprocs, n) == [1..n -> (SUBSET (0..(nprocs - 1))) \ {{}}]

InitSF ==
    /\ clusters = <<>>
    /\ mode = "unread"
    /\ pc = "off"
    /\ ci = 1
    /\ ei = 1
    /\ exprs = <<>>
    /\ processed = <<>>
    /\ st = FreshSt("low")
    /\ dropped = <<>>
    /\ calls = <<>>
    /\ cur = <<>>
    /\ cde = NoCDE
    /\ result = <<>>
    /\ msf = NoMSF
    /\ \E nprocs \in 1..MaxRanks : \E n \in 0..MaxSparse :
           \E need \in NeedMaps(nprocs, n) :
               sf = SFObject(nprocs, need, PointData(n))

CallSFScatter ==
    /\ sf.pc = "built"
    /\ sf' = SFScatter(sf)
    /\ UNCHANGED <<passVars, msf>>

CallSFGather ==
    /\ sf.pc = "scattered"
    /\ sf' = SFGather(sf)
    /\ UNCHANGED <<passVars, msf>>

NextSF ==
    \/ CallSFScatter
    \/ CallSFGather

SpecSF == InitSF /\ [][NextSF]_vars

(* ------------------------------------------------------------------ *)
(* Properties                                                          *)
(* ------------------------------------------------------------------ *)

\* The shape of the clusters that LowerDerivative emits.
IsInit(c) ==
    /\ Len(c.exprs) = 1
    /\ c.exprs[1].op = "eq"
    /\ c.exprs[1].rhs = Num(0)

IsAcc(c) ==
    /\ Len(c.exprs) = 1
    /\ c.exprs[1].op = "inc"
    /\ c.exprs[1].rhs.tag = "op"
    /\ c.exprs[1].rhs.op = "mul"
    /\ c.exprs[1].rhs.args[2].tag = "w"

AccOf(c) == c.exprs[1].lhs

RECURSIVE HasDeriv(_)
HasDeriv(e) ==
    IF e.tag = "deriv" THEN TRUE
    ELSE IF q_leaf(e) THEN FALSE
    ELSE \E i \in 1..Len(e.args) : HasDeriv(e.args[i])

InputHasDeriv ==
    \E i \in 1..Len(clusters) : \E j \in 1..Len(clusters[i].exprs) :
        HasDeriv(clusters[i].exprs[j].rhs)

SrcEq(r) == clusters[r.src[1]].exprs[r.src[2]]

LogIdx == 1..Len(st.log)

\* The number of accumulators the lowering map holds for rhs v (0 if none).
Multiplicity(v) ==
    IF HasKey(st.mapper, v) THEN Len(Lookup(st.mapper, v).vals) ELSE 0

EventIdx == 1..Len(cde.events)

IsDrop(ev) == ev.kind \in {"drop_global", "drop_local"}

\* C1 (as claimed): in the output of lowering every accumulate cluster is
\* immediately preceded by the init cluster of the same accumulator.
C1_InitImmediatelyBeforeAcc ==
    \A j \in 1..Len(processed) :
        IsAcc(processed[j]) =>
            /\ j > 1
            /\ IsInit(processed[j - 1])
            /\ AccOf(processed[j - 1]) = AccOf(processed[j])

\* C1 (amended): every accumulate cluster is preceded by the init cluster of
\* the same accumulator, and only the init and accumulate clusters of the
\* derivatives nested inside that derivative stand between the two; for a
\* derivative that contains no other derivative the init cluster comes
\* immediately before the accumulate cluster.
C1_InitBeforeAccAroundNested ==
    \A j \in 1..Len(processed) :
        IsAcc(processed[j]) =>
            \E n \in LogIdx :
                LET r == st.log[n]
                    i == j - 1 - 2 * r.nested
                IN /\ r.accum = processed[j]
                   /\ i >= 1
                   /\ processed[i] = r.init
                   /\ AccOf(processed[i]) = AccOf(processed[j])
                   /\ \A m \in (i + 1)..(j - 1) :
                         /\ IsInit(processed[m]) \/ IsAcc(processed[m])
                         /\ AccOf(processed[m]) # AccOf(processed[j])

\* C1 witness: lowering returned clusters for a derivative with a nested
\* derivative and for one without.
C1_Witness ==
    /\ pc = "lowered"
    /\ \E n \in LogIdx : st.log[n].nested > 0
    /\ \E n \in LogIdx : st.log[n].nested = 0
    /\ \E j \in 1..Len(processed) : IsAcc(processed[j])

\* C2 (as claimed): CDE drops no equation whose right-hand side the lowering
\* map records with exactly one accumulator (dropping at line 178 is also
\* where a substitution for its left side would be recorded).
C2_NeverDropsSingleOccurrence ==
    \A n \in EventIdx :
        IsDrop(cde.events[n]) => Multiplicity(cde.events[n].e.rhs) # 1

\* C3 (as claimed): of the accumulate equations with one candidate
\* right-hand side that a callback visits, the first is kept as the
\* authoritative one and every other one is dropped.
C3_FirstKeptOthersDropped ==
    \A n \in EventIdx :
        LET ev == cde.events[n]
            first == \A m \in 1..(n - 1) :
                        ~(cde.events[m].g = ev.g /\ cde.events[m].e.op = "inc"
                          /\ cde.events[m].e.rhs = ev.e.rhs)
        IN (ev.e.op = "inc" /\ Multiplicity(ev.e.rhs) >= 2) =>
              IF first THEN ev.kind = "register" ELSE IsDrop(ev)

C5_WeightSharing ==
    /\ \A m, n \in LogIdx :
          st.log[m].k = st.log[n].k =>
              /\ st.log[m].w.name = st.log[n].w.name
              /\ st.log[m].accum.exprs[1].rhs.args[2].name
                    = st.log[n].accum.exprs[1].rhs.args[2].name
    /\ \A n \in LogIdx :
          st.log[n].accum.exprs[1].rhs.args[2].name = st.log[n].w.name
    /\ \A i, j \in 1..Len(st.weights) :
          i # j => /\ st.weights[i].key # st.weights[j].key
                   /\ st.weights[i].name # st.weights[j].name

\* C5 witness: two derivatives shared one coefficient tuple and a third one
\* had another tuple.
C5_Witness ==
    /\ pc = "lowered"
    /\ \E m, n \in LogIdx : m # n /\ st.log[m].k = st.log[n].k
    /\ Len(st.weights) = 2

\* The interval of dimension d in a space that holds d.
IntervalOf(ispace, d) == ispace[CHOOSE i \in 1..Len(ispace) : ispace[i].dim = d]

ZeroBased(ispace, d) ==
    InSpace(d, ispace) =>
        /\ IvStart(IntervalOf(ispace, d)) = 0
        /\ IvEnd(IntervalOf(ispace, d)) = DimMax(d) - DimMin(d)

\* C6: in the clusters emitted for a derivative, the interval of every
\* stencil dimension that the lowering introduced starts at 0 and keeps its
\* extent.
C6_ZeroStart ==
    \A n \in LogIdx :
        LET r == st.log[n]
        IN \A i \in 1..Len(r.dims) :
              /\ InSpace(r.dims[i], r.accum.ispace)
              /\ ZeroBased(r.accum.ispace, r.dims[i])
              /\ ZeroBased(r.init.ispace, r.dims[i])
              /\ \A j \in 1..Len(processed) :
                    (IsAcc(processed[j]) /\ processed[j] = r.accum) =>
                        ZeroBased(processed[j].ispace, r.dims[i])

\* C6 witness: a derivative introduced two stencil dimensions whose own
\* lower bounds are not 0.
C6_Witness ==
    /\ pc = "lowered"
    /\ \E n \in LogIdx :
          /\ Len(st.log[n].dims) = 2
          /\ \A i \in 1..2 : DimMin(st.log[n].dims[i]) # 0

\* C7: the space of the init cluster is the space of the accumulate cluster
\* without its last dimension, which is the last stencil dimension added.
C7_InitSpaceDropsInnermost ==
    \A n \in LogIdx :
        LET r == st.log[n]
            a == r.accum.ispace
        IN /\ Len(a) >= 1
           /\ r.init.ispace = SubSeq(a, 1, Len(a) - 1)
           /\ Len(r.dims) >= 1
           /\ a[Len(a)].dim = r.dims[Len(r.dims)]

\* C7 witness: a derivative that added two stencil dimensions was lowered.
C7_Witness ==
    /\ pc = "lowered"
    /\ \E n \in LogIdx :
          /\ Len(st.log[n].dims) = 2
          /\ Len(st.log[n].init.ispace) = Len(st.log[n].cspace) + 1

\* C8: a reused accumulator is the destination offered by the source
\* equation being processed, it serves one derivative of that equation at
\* most, and every other accumulator is freshly named.
C8_ReuseScoping ==
    /\ \A n \in LogIdx :
          IF st.log[n].reused
          THEN /\ st.log[n].acc = SrcEq(st.log[n]).lhs
               /\ SrcEq(st.log[n]).lhs.tag = "sym"
               /\ SrcEq(st.log[n]).op = "eq"
          ELSE /\ st.log[n].acc.name.p = "r"
               /\ \A i \in 1..Len(clusters) : \A j \in 1..Len(clusters[i].exprs) :
                     clusters[i].exprs[j].lhs # st.log[n].acc
    /\ \A m, n \in LogIdx :
          (m # n /\ st.log[m].reused /\ st.log[n].reused) =>
              st.log[m].src # st.log[n].src

\* C8 witness: two source equations with the same destination each reused
\* it, and one equation with two derivatives reused it once.
C8_Witness ==
    /\ pc = "lowered"
    /\ \E m, n \in LogIdx :
          /\ st.log[m].reused /\ st.log[n].reused
          /\ st.log[m].src # st.log[n].src
          /\ st.log[m].acc = st.log[n].acc
    /\ \E m, n \in LogIdx :
          /\ st.log[m].reused /\ ~st.log[n].reused
          /\ st.log[m].src = st.log[n].src

\* C9 (as claimed): a reused accumulator whose type differs from the result
\* type of the derivative never gets an init and accumulate pair; lowering
\* fails and returns nothing.
C9_MismatchAborts ==
    /\ \A n \in LogIdx :
          st.log[n].reused => st.log[n].acc.dtype = st.log[n].dtype
    /\ pc = "failed" => result = <<>>

\* C10: the phases run in a fixed order.  Fusion and CDE start only after
\* the lowering of all clusters; without any derivative neither runs and the
\* lowered sequence is returned; with mode 'noop' CDE runs without fusion;
\* otherwise fusion runs once, between lowering and CDE.
C10_PhaseOrder ==
    /\ calls[1] = "lower"
    /\ pc \in {"lower", "lowered", "failed"} => calls = <<"lower">>
    /\ Len(calls) > 1 => ci > Len(clusters)
    /\ pc = "cde" =>
          calls = IF mode = "noop" THEN <<"lower">> ELSE <<"lower", "fuse">>
    /\ pc = "done" =>
          IF ~InputHasDeriv
          THEN calls = <<"lower">> /\ result = processed
          ELSE calls = IF mode = "noop" THEN <<"lower", "cde">>
                       ELSE <<"lower", "fuse", "cde">>

\* C10 witness: a run with mode 'noop' ended after CDE without fusion.
C10_Witness ==
    /\ pc = "done"
    /\ mode = "noop"
    /\ InputHasDeriv
    /\ calls = <<"lower", "cde">>

(* ------------------------------------------------------------------ *)
(* A whole call as one function of its arguments, for comparing runs   *)
(* ------------------------------------------------------------------ *)

\* lines 41-70: the loops of _lower_index_derivatives from state s on.
RECURSIVE LowerAll(_, _, _, _)
LowerAll(cs, i, j, s) ==
    IF i > Len(cs) \/ s.st.fault # "none" THEN s
    ELSE IF j > Len(cs[i].exprs)
    THEN LowerAll(cs, i + 1, 1,
                  [s EXCEPT !.processed = Dump(s.processed, s.exprs, cs[i]),
                            !.exprs = <<>>,
                            !.st = [@ EXCEPT !.prov = Dump(@, s.st.bprov, cs[i]),
                                             !.bprov = <<>>]])
    ELSE LowerAll(cs, i, j + 1, LowerEqStep(s, cs[i], cs[i].exprs[j], <<i, j>>))

\* lines 13-28: what a call with clusters cs and mode m returns when sets
\* iterate in the given order and the naming service is fresh.
PassOf(cs, m, order) ==
    LET l == LowerAll(cs, 1, 1, [processed |-> <<>>, exprs |-> <<>>,
                                 st |-> FreshSt(order), dropped |-> <<>>])
        out == IF l.st.fault # "none" THEN <<>>
               ELSE IF l.st.weights = <<>> THEN l.processed
               ELSE CDEProcess(IF FuseWanted(m) THEN fuse(l.processed)
                               ELSE l.processed, l.st.mapper).out
    IN [fault |-> l.st.fault, result |-> out, weights |-> l.st.weights,
        mapper |-> l.st.mapper,
        accs |-> [n \in 1..Len(l.st.log) |-> l.st.log[n].acc]]

\* C11: a second run on the same input, with a fresh naming service and the
\* other iteration order of sets, ends as this run does: the same fault or
\* the same clusters, the same weight symbols and the same accumulator for
\* every derivative.
C11_Deterministic ==
    pc \in {"done", "failed"} =>
        LET o == PassOf(clusters, mode, "high")
        IN /\ o.fault = st.fault
           /\ o.result = result
           /\ pc = "done" =>
                 /\ o.weights = st.weights
                 /\ o.mapper = st.mapper
                 /\ o.accs = [n \in LogIdx |-> st.log[n].acc]

\* C11 witness: a run ended in which an accumulator was popped from the
\* pool, another one was freshly named, and CDE dropped an equation.
C11_Witness ==
    /\ pc = "done"
    /\ \E n \in LogIdx : st.log[n].reused
    /\ \E n \in LogIdx : ~st.log[n].reused
    /\ Len(st.weights) = 2
    /\ \E n \in EventIdx : IsDrop(cde.events[n])

\* The input is the single equation u = D(D(a)), u a bare symbol, in a
\* cluster that pins no stencil dimension.
NestedInput == clusters = <<Cluster(<<Eq(SymU, DDa)>>, SpaceX)>>

SpaceDims(ispace) == [i \in 1..Len(ispace) |-> ispace[i].dim]

\* Both stencil dimensions run over [0, hi - lo], the inner one (i0) inside
\* the outer one (i1), in the clusters of the inner and outer derivative.
NestedSpaces(inner, outer) ==
    /\ SpaceDims(inner.accum.ispace) = <<"x", "i1", "i0">>
    /\ SpaceDims(outer.accum.ispace) = <<"x", "i1">>
    /\ ZeroBased(inner.accum.ispace, "i0")
    /\ ZeroBased(inner.accum.ispace, "i1")
    /\ ZeroBased(outer.accum.ispace, "i1")

\* C12 (as claimed): u = D(D(a)) is lowered to exactly four clusters, inner
\* init, inner accumulate, outer init, outer accumulate; the outer
\* accumulator is u and the equation of u is not emitted.
C12_NestedInnerFirst ==
    (NestedInput /\ pc \in {"lowered", "cde", "done"}) =>
        /\ Len(st.log) = 2
        /\ processed = <<st.log[1].init, st.log[1].accum,
                         st.log[2].init, st.log[2].accum>>
        /\ NestedSpaces(st.log[1], st.log[2])
        /\ st.log[2].acc = SymU
        /\ dropped = << <<1, 1>> >>

\* C12 (amended): u = D(D(a)) is lowered to outer init, inner init, inner
\* accumulate, outer accumulate and a fifth cluster with u = r0; both
\* stencil dimensions run over [0, hi - lo], the inner inside the outer; the
\* inner accumulator is u and the outer one is the fresh r0.
C12_NestedOuterInitFirst ==
    (NestedInput /\ pc \in {"lowered", "cde", "done"}) =>
        /\ Len(st.log) = 2
        /\ processed = <<st.log[2].init, st.log[1].init, st.log[1].accum,
                         st.log[2].accum,
                         Cluster(<<Eq(SymU, st.log[2].acc)>>, SpaceX)>>
        /\ NestedSpaces(st.log[1], st.log[2])
        /\ st.log[1].nested = 0 /\ st.log[2].nested = 1
        /\ st.log[1].acc = SymU /\ st.log[1].reused
        /\ st.log[2].acc = Sym("r", 0, F32) /\ ~st.log[2].reused
        /\ SpaceDims(st.log[1].init.ispace) = <<"x", "i1">>
        /\ SpaceDims(st.log[2].init.ispace) = <<"x">>
        /\ dropped = <<>>

\* C12 witness: the lowering of u = D(D(a)) returned.
C12_Witness ==
    /\ NestedInput
    /\ pc = "lowered"
    /\ Len(processed) > 0

\* CDE.process ran in this call.
CDERan == pc = "done" /\ Len(calls) > 0 /\ calls[Len(calls)] = "cde"

\* Every key of the lowering map has exactly one accumulator.
AllSingle == \A i \in 1..Len(st.mapper) : Len(st.mapper[i].vals) = 1

\* C13: when every key of the lowering map has exactly one accumulator,
\* CDE.process returns the clusters it was given, in the same order, each with
\* the same equations in the same order and over the same space; it drops no
\* equation, records no substitution and rewrites no symbol.
C13_NoOpOnSingles ==
    (CDERan /\ AllSingle) =>
        /\ result = cur
        /\ cde.subs0 = <<>>
        /\ \A n \in EventIdx : ~IsDrop(cde.events[n])
                               /\ cde.events[n].out = cde.events[n].e

\* C13 witness: CDE ran over the clusters of two different derivatives, each
\* lowered once, with and without a preceding fusion.
C13_Witness ==
    /\ CDERan
    /\ AllSingle
    /\ Len(st.mapper) = 2
    /\ Len(cur) >= 4
    /\ Len(calls) = 2

\* C14: no step of the pass changes an input cluster; a cluster that the
\* lowering has emitted stays as it is while later equations are buffered
\* and dumped; CDE leaves the clusters it is given as they are and returns
\* new ones.
C14_Frame ==
    [][/\ clusters' = clusters
       /\ Len(processed') >= Len(processed)
       /\ SubSeq(processed', 1, Len(processed)) = processed
       /\ (pc = "cde" => cur' = cur /\ processed' = processed)]_vars

\* C14 witness: the lowering emitted clusters, buffered and dumped the
\* equations that followed them, and CDE returned clusters that differ from
\* the ones it was given.
C14_Witness ==
    /\ CDERan
    /\ result # cur
    /\ Len(processed) >= 3
    /\ \E i \in 2..Len(processed) : Len(processed[i].exprs) >= 2
    /\ \A i \in 1..Len(clusters) : clusters[i].exprs # <<>>

\* C15: _dist_scatter returns only when manual_scatter has completed since
\* the construction and since the last free_data, and what it returns is the
\* stored scatter_result; in every other state it raises; a manual_scatter
\* that completed leaves scatter_result set, on one rank and on several.
C15_ScatterBeforeDist ==
    /\ (msf.last.op = "_dist_scatter" /\ msf.last.out = "returned") =>
           msf.scattered /\ msf.last.value = msf.scatter_result
                         /\ msf.last.value # None
    /\ (msf.last.op = "_dist_scatter" /\ ~msf.scattered) =>
           msf.last.out \in {"Exception", "AssertionError"}
    /\ (msf.last.op = "manual_scatter" /\ msf.last.out = "returned") =>
           msf.scatter_result # None
    /\ msf.scattered <=> msf.scatter_result # None

\* C15 witness: on a rank other than 0 of a run with several ranks,
\* _dist_scatter returned after a free_data and a later manual_scatter.
C15_Witness ==
    /\ msf.nprocs > 1
    /\ msf.myrank # 0
    /\ msf.ncalls >= 3
    /\ msf.last.op = "_dist_scatter"
    /\ msf.last.out = "returned"

\* The accumulators that CDE eliminated in favour of another symbol.
Eliminated ==
    {cde.subs0[i][1] : i \in {j \in 1..Len(cde.subs0) :
                                  cde.subs0[j][1] # cde.subs0[j][2]}}

\* Event m is about an equation that stands after the one of event n in the
\* clusters given to CDE (events of one cluster are in equation order).
EventAfter(m, n) ==
    \/ cde.events[m].id > cde.events[n].id
    \/ cde.events[m].id = cde.events[n].id /\ m > n

\* C16: after CDE no kept equation that follows the dropped accumulate of an
\* eliminated accumulator reads that accumulator, unless a kept equation in
\* between assigns it again.
C16_NoReadOfEliminated ==
    CDERan =>
        \A n \in EventIdx : \A m \in EventIdx :
            (/\ cde.events[n].kind = "drop_local"
             /\ cde.events[n].e.lhs \in Eliminated
             /\ ~IsDrop(cde.events[m])
             /\ EventAfter(m, n)
             /\ ~\E p \in EventIdx :
                    /\ ~IsDrop(cde.events[p])
                    /\ EventAfter(p, n) /\ EventAfter(m, p)
                    /\ cde.events[p].out.lhs = cde.events[n].e.lhs)
            => cde.events[n].e.lhs.name \notin ReadsOf(cde.events[m].out.rhs)

\* Equation e is the init (s = 0) or the accumulate (s += v) of a reduction.
IsReductionEq(e) ==
    /\ e.lhs.tag = "sym"
    /\ \/ e.op = "eq" /\ e.rhs = Num(0)
       \/ e.op = "inc" /\ \E n \in LogIdx : st.log[n].accum.exprs[1] = e

\* C17 (as claimed): every equation that CDE drops is the init or the
\* accumulate equation of a reduction; an equation that assigns another value
\* to a symbol, also to one that was an eliminated accumulator, is kept.
C17_DropsOnlyReductions ==
    \A n \in EventIdx :
        IsDrop(cde.events[n]) => IsReductionEq(cde.events[n].e)

(* ------------------------------------------------------------------ *)
(* The values that a cluster sequence computes                         *)
(* ------------------------------------------------------------------ *)

\* A store: <<key, value>> pairs, the last pair of a key holds its value.
\* A symbol is kept under its name, a function under its name and the
\* position read.
Cell(fn, at) == [fn |-> fn, at |-> at]

\* What a symbol or a position holds before the clusters run.
Before(key) ==
    IF "fn" \in DOMAIN key
    THEN (IF key.fn = "a" THEN 2 ELSE 3) * key.at + key.at * key.at + 1
    ELSE IF key.p = "u" THEN 5 ELSE IF key.p = "v" THEN 7 ELSE 11

RECURSIVE Load(_, _, _)
Load(env, key, i) ==
    IF i = 0 THEN Before(key)
    ELSE IF env[i][1] = key THEN env[i][2] ELSE Load(env, key, i - 1)

\* The position that an indexed access reads at the point pt.
RECURSIVE PosOf(_, _, _)
PosOf(e, pt, i) ==
    IF i = 0 THEN 0 ELSE pt[e.dims[i]] + e.off[i] + PosOf(e, pt, i - 1)

\* The coefficient that a weights access reads at the point pt: a derivative
\* not yet lowered runs its dimension from _min, a lowered one from 0.
RECURSIVE Coeff(_, _, _)
Coeff(e, pt, i) ==
    IF i = 0 THEN 1
    ELSE LET d == e.dims[i]
             at == IF e.name.p = "W" THEN pt[d] - DimMin(d) + 1 ELSE pt[d] + 1
         IN e.k[at] * Coeff(e, pt, i - 1)

\* The value of expression e in the store env at the point pt; a derivative
\* is the sum of base*weights over the dimensions of its weights.
RECURSIVE Val(_, _, _)
RECURSIVE DerivSum(_, _, _, _)
RECURSIVE DerivLoop(_, _, _, _, _)
DerivSum(e, ds, env, pt) ==
    IF ds = <<>> THEN Val(DerivBase(e), env, pt) * Val(DerivWeights(e), env, pt)
    ELSE DerivLoop(e, ds, DimMin(Head(ds)), env, pt)

DerivLoop(e, ds, v, env, pt) ==
    IF v > DimMax(Head(ds)) THEN 0
    ELSE DerivSum(e, Tail(ds), env, [pt EXCEPT ![Head(ds)] = v])
         + DerivLoop(e, ds, v + 1, env, pt)

Val(e, env, pt) ==
    CASE e.tag = "sym" -> Load(env, e.name, Len(env))
      [] e.tag = "num" -> e.val
      [] e.tag = "idx" -> Load(env, Cell(e.fn, PosOf(e, pt, Len(e.dims))), Len(env))
      [] e.tag = "w" -> Coeff(e, pt, Len(e.dims))
      [] e.tag = "deriv" -> DerivSum(e, DerivWeights(e).dims, env, pt)
      [] e.op = "add" -> Val(e.args[1], env, pt) + Val(e.args[2], env, pt)
      [] e.op = "mul" -> Val(e.args[1], env, pt) * Val(e.args[2], env, pt)
      [] OTHER -> 2 * Val(e.args[1], env, pt) + 1

\* The store after equation eq ran at the point pt.
ExecEq(eq, env, pt) ==
    LET key == IF eq.lhs.tag = "sym" THEN eq.lhs.name
               ELSE Cell(eq.lhs.fn, PosOf(eq.lhs, pt, Len(eq.lhs.dims)))
        new == IF eq.op = "inc"
               THEN Load(env, key, Len(env)) + Val(eq.rhs, env, pt)
               ELSE Val(eq.rhs, env, pt)
    IN Append(env, <<key, new>>)

RECURSIVE ExecEqs(_, _, _)
ExecEqs(eqs, env, pt) ==
    IF eqs = <<>> THEN env ELSE ExecEqs(Tail(eqs), ExecEq(Head(eqs), env, pt), pt)

\* The number of leading clusters of cs that share the loop iv at level.
RECURSIVE LoopLen(_, _, _)
LoopLen(cs, level, iv) ==
    IF cs = <<>> THEN 0
    ELSE IF Len(Head(cs).ispace) >= level /\ Head(cs).ispace[level] = iv
    THEN 1 + LoopLen(Tail(cs), level, iv)
    ELSE 0

\* The store after the clusters cs ran in order: consecutive clusters that
\* share the loop of a level run inside one loop over it.
RECURSIVE ExecSeq(_, _, _, _)
RECURSIVE ExecLoop(_, _, _, _, _, _)
ExecLoop(run, level, v, hi, pt, env) ==
    IF v > hi THEN env
    ELSE ExecLoop(run, level, v + 1, hi, pt,
                  ExecSeq(run, level + 1,
                          [pt EXCEPT ![run[1].ispace[level].dim] = v], env))

ExecSeq(cs, level, pt, env) ==
    IF cs = <<>> THEN env
    ELSE IF Len(Head(cs).ispace) < level
    THEN ExecSeq(Tail(cs), level, pt, ExecEqs(Head(cs).exprs, env, pt))
    ELSE LET n == LoopLen(cs, level, Head(cs).ispace[level])
             iv == Head(cs).ispace[level]
         IN ExecSeq(SubSeq(cs, n + 1, Len(cs)), level, pt,
                    ExecLoop(SubSeq(cs, 1, n), level, IvStart(iv), IvEnd(iv),
                             pt, env))

\* The value that symbol sym holds after the clusters cs ran.
ValueAfter(cs, sym) ==
    LET Final(env) == Load(env, sym.name, Len(env))
    IN Final(ExecSeq(cs, 1, [d \in {"x", "i0", "i1"} |-> 0], <<>>))

\* C18 (as claimed): for an input of one cluster over the grid dimension,
\* running the lowered clusters in output order leaves every symbol that a
\* source equation assigns with the value that the source equations give it.
C18_ValuePreserved ==
    (pc = "lowered" /\ Len(clusters) = 1 /\ clusters[1].ispace = SpaceX) =>
        \A j \in 1..Len(clusters[1].exprs) :
            clusters[1].exprs[j].lhs.tag = "sym" =>
                ValueAfter(processed, clusters[1].exprs[j].lhs)
                    = ValueAfter(clusters, clusters[1].exprs[j].lhs)

\* The positions <<cluster, equation>> of the sequence returned.
ResultPos ==
    {<<i, j>> : i \in 1..Len(result), j \in 1..MaxEqs + MaxHazard + 8}
        \cap {p \in (1..Len(result)) \X (1..MaxEqs + MaxHazard + 8) :
                  p[2] <= Len(result[p[1]].exprs)}

PosBefore(p, q) == p[1] < q[1] \/ (p[1] = q[1] /\ p[2] < q[2])

\* Equation e is an accumulate s += base*weights.
IsAccEq(e) ==
    /\ e.op = "inc"
    /\ e.lhs.tag = "sym"
    /\ e.rhs.tag = "op"
    /\ e.rhs.op = "mul"
    /\ e.rhs.args[2].tag = "w"

\* C19 (as claimed): after CDE every accumulate equation s += ... of the
\* output has an init equation s = 0 for the same s before it in the output.
C19_InitSurvivesWithAcc ==
    CDERan =>
        \A q \in ResultPos :
            IsAccEq(result[q[1]].exprs[q[2]]) =>
                \E p \in ResultPos :
                    /\ PosBefore(p, q)
                    /\ result[p[1]].exprs[p[2]]
                           = Eq(result[q[1]].exprs[q[2]].lhs, Num(0))

\* Event m keeps the accumulate equation in favour of which the accumulate
\* equation of event n was dropped: the nearest one before it with the same
\* right-hand side whose accumulator subs0 records for the dropped one.
MergedInto(n, m) ==
    LET Partner(q) ==
            /\ cde.events[q].kind = "register"
            /\ cde.events[q].e.rhs = cde.events[n].e.rhs
            /\ cde.events[q].e.lhs = RuleGet(cde.subs0, cde.events[n].e.lhs)
            /\ EventAfter(n, q)
    IN /\ IsDrop(cde.events[n])
       /\ IsAccEq(cde.events[n].e)
       /\ RuleHas(cde.subs0, cde.events[n].e.lhs)
       /\ Partner(m)
       /\ \A q \in EventIdx : Partner(q) => ~EventAfter(q, m)

\* C20 (as claimed): when CDE drops an accumulate equation in favour of a
\* kept accumulate equation with the same right-hand side, no equation kept
\* between the two writes a symbol or a function that this right-hand side
\* reads.
C20_NoWriteBetweenMerged ==
    CDERan =>
        \A n \in EventIdx : \A m \in EventIdx : \A p \in EventIdx :
            (/\ MergedInto(n, m)
             /\ ~IsDrop(cde.events[p])
             /\ EventAfter(p, m) /\ EventAfter(n, p))
            => WriteOf(cde.events[p].out) \notin ReadsOf(cde.events[n].e.rhs)

\* C21 (as claimed): when an accumulate equation is dropped in favour of a
\* kept accumulate equation with the same right-hand side, the same callback
\* invocation visited both; accumulate equations with the same right-hand
\* side in different prefix groups are never merged.
C21_MergeOnlyWithinGroup ==
    CDERan =>
        \A n \in EventIdx : \A m \in EventIdx :
            MergedInto(n, m) => cde.events[m].g = cde.events[n].g

\* C22 (as claimed): every freshly named accumulator has the result type of
\* the derivative it replaces, whether the weights of that derivative were
\* built for it or shared with an earlier derivative.
C22_FreshHasDerivDtype ==
    \A n \in LogIdx :
        ~st.log[n].reused => st.log[n].acc.dtype = st.log[n].dtype

\* The stencil dimensions that the accumulate equation of log record r reads
\* and that the source cluster does not hold, in first-seen order.
SeenNew(r) ==
    LET all == retrieve_dimensions(r.accum.exprs[1].rhs)
        seen == filter_ordered(SelectIdx(all, LAMBDA i : IsStencil(all[i])))
    IN SelectIdx(seen, LAMBDA i : ~InSpace(seen[i], r.cspace))

\* C23: the space of the accumulate cluster of a derivative is the space of
\* the source cluster, intervals, directions and order unchanged (a stencil
\* dimension that the source cluster holds keeps its interval), followed by
\* the other stencil dimensions of the derivative in the reverse of their
\* first-seen order, each Backward iff its backward flag is set.
C23_AccumSpace ==
    \A n \in LogIdx :
        LET r == st.log[n]
            a == r.accum.ispace
            c == r.cspace
            new == SeenNew(r)
        IN /\ Len(a) = Len(c) + Len(new)
           /\ SubSeq(a, 1, Len(c)) = c
           /\ \A i \in 1..Len(new) :
                 /\ a[Len(c) + i].dim = new[Len(new) + 1 - i]
                 /\ a[Len(c) + i].dir =
                        IF DimBackward(a[Len(c) + i].dim) THEN "Backward"
                        ELSE "Forward"

\* C23 witness: a derivative over two stencil dimensions was lowered in a
\* cluster that pins one of them with offsets of its own, another one in a
\* cluster that pins none, and the dimension added to the first is Backward.
C23_Witness ==
    /\ pc = "lowered"
    /\ \E n \in LogIdx :
          /\ st.log[n].cspace = SpacePinned
          /\ SeenNew(st.log[n]) = <<"i1">>
          /\ IntervalOf(st.log[n].accum.ispace, "i0").lower = 1
    /\ \E n \in LogIdx :
          /\ st.log[n].cspace = SpaceX
          /\ SeenNew(st.log[n]) = <<"i0", "i1">>

\* What expression e reads at the point pt: symbols and function positions.
RECURSIVE TapsOf(_, _)
TapsOf(e, pt) ==
    CASE e.tag = "sym" -> {e.name}
      [] e.tag = "idx" -> {Cell(e.fn, PosOf(e, pt, Len(e.dims)))}
      [] e.tag \in {"num", "w"} -> {}
      [] OTHER -> UNION {TapsOf(e.args[i], pt) : i \in 1..Len(e.args)}

\* The points of the accumulate loops of log record r: every new dimension
\* within its renormalized range.
LoopPoints(r) ==
    {pt \in [{"x", "i0", "i1"} -> 0..2] :
        /\ pt["x"] = 0
        /\ \A i \in 1..Len(r.dims) :
              pt[r.dims[i]] <= DimMax(r.dims[i]) - DimMin(r.dims[i])}

\* The point of the original derivative that the loop point pt stands for:
\* a new dimension d that is at k there is at d._min + k here.
OrigPoint(r, pt) ==
    [d \in DOMAIN pt |->
        IF \E i \in 1..Len(r.dims) : r.dims[i] = d THEN pt[d] + DimMin(d)
        ELSE pt[d]]

\* The derivative of log record r as it was before the lowering, with the
\* abstract weights.
OrigDeriv(r) ==
    Deriv(r.base, W0(r.k, r.accum.exprs[1].rhs.args[2].dims), r.dtype)

\* The accumulator of r after s = 0 and the accumulate equation ran over
\* the dimensions of the weights, the other dimensions held at pt.
AccumulatedSum(r, pt) ==
    LET acc == r.accum.exprs[1]
        wd == acc.rhs.args[2].dims
        sp == SelectIdx(r.accum.ispace,
                        LAMBDA i : \E j \in 1..Len(wd) :
                                       wd[j] = r.accum.ispace[i].dim)
        Final(env) == Load(env, acc.lhs.name, Len(env))
    IN Final(ExecSeq(<<Cluster(<<Eq(acc.lhs, Num(0))>>, <<>>),
                       Cluster(<<acc>>, sp)>>, 1, pt, <<>>))

\* The loop point pt is at the start of the dimensions of the weights of r,
\* the dimensions the accumulated sum runs over.
AtSumStart(r, pt) ==
    \A j \in 1..Len(r.accum.exprs[1].rhs.args[2].dims) :
        pt[r.accum.exprs[1].rhs.args[2].dims[j]] = 0

\* Every dimension of the weights of r is a new dimension.
WeightsDimsNew(r) ==
    \A j \in 1..Len(r.accum.exprs[1].rhs.args[2].dims) :
        \E i \in 1..Len(r.dims) :
            r.dims[i] = r.accum.exprs[1].rhs.args[2].dims[j]

\* C24: every new stencil dimension d of a derivative runs over
\* [0, d._max - d._min] in the accumulate cluster; at the loop point k the
\* shifted base reads what the original base reads at d._min + k and the
\* weights give the k-th coefficient; the sum accumulated over the
\* dimensions of the weights, from any point of the other dimensions, is
\* the weighted sum of the original derivative (weights and sum for a
\* derivative all of whose weights dimensions are new).
\* Stated of every derivative lowered when the lowering ends.
C24_TapsAndWeights ==
    pc \in {"lowered", "failed"} => \A n \in LogIdx :
        LET r == st.log[n]
            acc == r.accum.exprs[1]
        IN /\ \A i \in 1..Len(r.dims) : ZeroBased(r.accum.ispace, r.dims[i])
           /\ \A pt \in LoopPoints(r) :
                 /\ TapsOf(acc.rhs.args[1], pt) = TapsOf(r.base, OrigPoint(r, pt))
                 /\ WeightsDimsNew(r) =>
                        /\ Val(acc.rhs.args[2], <<>>, pt)
                               = Val(DerivWeights(OrigDeriv(r)), <<>>,
                                     OrigPoint(r, pt))
                        /\ AtSumStart(r, pt) =>
                               AccumulatedSum(r, pt)
                                   = Val(OrigDeriv(r), <<>>, OrigPoint(r, pt))

\* C24 witness: a derivative over a new dimension with bounds [-2, 0] and
\* one over two new dimensions were lowered, and an accumulated sum is not 0.
C24_Witness ==
    /\ pc = "lowered"
    /\ \E n \in LogIdx :
          /\ st.log[n].dims = <<"i1">>
          /\ WeightsDimsNew(st.log[n])
          /\ \E pt \in LoopPoints(st.log[n]) : AccumulatedSum(st.log[n], pt) # 0
    /\ \E n \in LogIdx :
          /\ Len(st.log[n].dims) = 2
          /\ Len(st.log[n].accum.exprs[1].rhs.args[2].dims) = 2

\* The positions <<cluster, equation>> of the list processed.
ProcPos ==
    UNION {{<<i, j>> : j \in 1..Len(processed[i].exprs)} :
           i \in 1..Len(processed)}

\* The origin of the equation at position p of processed.
OriginAt(p) == st.prov[p[1]].exprs[p[2]]

\* The history st.prov has the shape of processed.
ProvShape ==
    /\ Len(st.prov) = Len(processed)
    /\ \A i \in 1..Len(processed) :
          /\ Len(st.prov[i].exprs) = Len(processed[i].exprs)
          /\ st.prov[i].ispace = processed[i].ispace

\* A source equation of cluster i at a position in lo..hi holds a derivative.
DerivIn(i, lo, hi) ==
    \E j \in lo..hi : HasDeriv(clusters[i].exprs[j].rhs)

\* C25: in the output of lowering, for source equations e1 before e2 every
\* equation made from e1 stands before every equation made from e2, in an
\* earlier cluster unless both are source equations buffered together; the
\* init and accumulate clusters of an equation come before the cluster with
\* its rewritten equation; and two equations of one source cluster share an
\* output cluster exactly when no equation after the first, up to the second
\* one, holds a derivative.
C25_SourceOrder ==
    pc = "lowered" =>
        /\ ProvShape
        /\ \A p \in ProcPos : \A q \in ProcPos :
              LET a == OriginAt(p)
                  b == OriginAt(q)
              IN /\ PosBefore(a.src, b.src) =>
                       \/ p[1] < q[1]
                       \/ /\ p[1] = q[1] /\ p[2] < q[2]
                          /\ a.kind = "eq" /\ b.kind = "eq"
                 /\ (a.src = b.src /\ a.kind = "red" /\ b.kind = "eq") =>
                       p[1] < q[1]
                 /\ (a.kind = "eq" /\ b.kind = "eq" /\ a.src[1] = b.src[1]
                     /\ a.src[2] < b.src[2]) =>
                       (p[1] = q[1] <=>
                            ~DerivIn(a.src[1], a.src[2] + 1, b.src[2]))

\* C25 witness: two source equations were buffered and flushed as one
\* cluster right before the init cluster of a third equation of their
\* cluster, whose rewritten equation came after its accumulate cluster.
C25_Witness ==
    /\ pc = "lowered"
    /\ \E i \in 1..(Len(processed) - 3) :
          /\ Len(processed[i].exprs) = 2
          /\ OriginAt(<<i, 1>>).kind = "eq"
          /\ OriginAt(<<i + 1, 1>>).kind = "red"
          /\ OriginAt(<<i + 3, 1>>).kind = "eq"
          /\ OriginAt(<<i + 3, 1>>).src = OriginAt(<<i + 1, 1>>).src
          /\ OriginAt(<<i + 1, 1>>).src[1] = OriginAt(<<i, 1>>).src[1]

\* The positions <<cluster, equation>> of the input.
SrcPos ==
    UNION {{<<i, j>> : j \in 1..Len(clusters[i].exprs)} : i \in 1..Len(clusters)}

\* The positions of processed that hold source equation src.
OutOf(src) == {p \in ProcPos : OriginAt(p) = [src |-> src, kind |-> "eq"]}

\* Line 64 discarded source equation src.
InDropped(src) == \E k \in 1..Len(dropped) : dropped[k] = src

\* The right-hand side of source equation src is, after the rewrite, the
\* symbol on its left: the whole right-hand side is one derivative, and this
\* derivative, lowered last of the equation, took the left side as its
\* accumulator (or the equation was r = r from the start).
RewrittenIsLhs(src) ==
    LET e == clusters[src[1]].exprs[src[2]]
        mine == {n \in LogIdx : st.log[n].src = src}
    IN \/ e.rhs = e.lhs
       \/ /\ e.rhs.tag = "deriv"
          /\ mine # {}
          /\ st.log[CHOOSE n \in mine : \A m \in mine : m <= n].acc = e.lhs

\* C26: the output of lowering holds a source equation once, with its left
\* side and operation, and unchanged if it has no derivative, unless its
\* rewritten right-hand side is the symbol on its left side; then, and only
\* then, the output does not hold it.
C26_OmittedIffSelfAssign ==
    pc = "lowered" =>
        /\ ProvShape
        /\ \A src \in SrcPos :
              LET e == clusters[src[1]].exprs[src[2]]
              IN /\ InDropped(src) <=> RewrittenIsLhs(src)
                 /\ Cardinality(OutOf(src)) = IF RewrittenIsLhs(src) THEN 0 ELSE 1
                 /\ \A p \in OutOf(src) :
                       LET o == processed[p[1]].exprs[p[2]]
                       IN /\ o.lhs = e.lhs
                          /\ o.op = e.op
                          /\ o.rhs # o.lhs
                          /\ ~HasDeriv(o.rhs)
                          /\ ~HasDeriv(e.rhs) => o = e

\* C26 witness: the lowering discarded u = D(a) and kept, of the same input,
\* an equation without derivative and the rewritten u = D(D(a)), whose
\* inner derivative took u.
C26_Witness ==
    /\ pc = "lowered"
    /\ Len(dropped) = 1
    /\ \E src \in SrcPos :
          /\ ~InDropped(src)
          /\ ~HasDeriv(clusters[src[1]].exprs[src[2]].rhs)
    /\ \E src \in SrcPos :
          /\ ~InDropped(src)
          /\ clusters[src[1]].exprs[src[2]] = Eq(SymU, DDa)
          /\ OutOf(src) # {}

\* Source equation e is a plain assignment to a bare symbol.
PlainSymbolEq(e) == e.lhs.tag = "sym" /\ e.op = "eq"

\* The log records of source equation src, and the first of them.
RecordsOf(src) == {n \in LogIdx : st.log[n].src = src}

FirstRecordOf(src) == CHOOSE n \in RecordsOf(src) : \A m \in RecordsOf(src) : n <= m

\* C27: the destination of a source equation is offered for reuse iff it is
\* a bare symbol and the equation is a plain assignment.  Then the first
\* derivative lowered for the equation takes it and every other one gets a
\* fresh name, and it stays in the pool if the equation has no derivative;
\* for an increment or an indexed destination the pool is empty and every
\* derivative gets a fresh name.
C27_ReusableIffPlainSymbol ==
    /\ \A n \in LogIdx :
          LET r == st.log[n]
              e == SrcEq(r)
          IN IF PlainSymbolEq(e) /\ n = FirstRecordOf(r.src)
             THEN r.reused /\ r.acc = e.lhs
             ELSE ~r.reused /\ r.acc.name.p = "r" /\ r.acc # e.lhs
    /\ (pc = "lower" /\ st.src # <<0, 0>>) =>
          LET e == clusters[st.src[1]].exprs[st.src[2]]
          IN st.reusables = IF PlainSymbolEq(e) /\ RecordsOf(st.src) = {}
                            THEN {e.lhs} ELSE {}

\* C27 witness: of one input, a plain assignment to a symbol had its
\* destination reused, and an increment of a symbol and an assignment to an
\* indexed destination got fresh accumulators.
C27_Witness ==
    /\ pc = "lowered"
    /\ \E n \in LogIdx : st.log[n].reused
    /\ \E n \in LogIdx :
          ~st.log[n].reused /\ SrcEq(st.log[n]).op = "inc"
                            /\ SrcEq(st.log[n]).lhs.tag = "sym"
    /\ \E n \in LogIdx :
          ~st.log[n].reused /\ SrcEq(st.log[n]).lhs.tag = "idx"

\* The positions in processed of the init and of the accumulate equation of
\* log record n.
InitPos(n) ==
    {p \in ProcPos : /\ OriginAt(p) = [src |-> st.log[n].src, kind |-> "red"]
                     /\ processed[p[1]] = st.log[n].init}

AccPos(n) ==
    {p \in ProcPos : /\ OriginAt(p) = [src |-> st.log[n].src, kind |-> "red"]
                     /\ processed[p[1]] = st.log[n].accum}

\* The accumulate equation of log record m reads the accumulator of log
\* record n, a derivative nested in the one of m.
ReadsInner(m, n) ==
    /\ m # n
    /\ st.log[m].src = st.log[n].src
    /\ st.log[n].acc.name \in ReadsOf(st.log[m].accum.exprs[1].rhs)

\* C28: in the output of lowering every derivative has one init and one
\* accumulate cluster, the init cluster first; the init and accumulate
\* clusters of a nested derivative stand before the accumulate cluster that
\* reads its accumulator; the rewritten source equation that reads an
\* accumulator stands after the accumulate cluster of that accumulator.
C28_DataFlowOrder ==
    pc = "lowered" =>
        /\ ProvShape
        /\ \A n \in LogIdx :
              /\ Cardinality(InitPos(n)) = 1
              /\ Cardinality(AccPos(n)) = 1
              /\ \A p \in InitPos(n) : \A q \in AccPos(n) : p[1] < q[1]
              /\ \A m \in LogIdx :
                    ReadsInner(m, n) =>
                        \A p \in InitPos(n) \cup AccPos(n) : \A q \in AccPos(m) :
                            p[1] < q[1]
              /\ \A q \in OutOf(st.log[n].src) :
                    st.log[n].acc.name \in ReadsOf(processed[q[1]].exprs[q[2]].rhs)
                        => \A p \in AccPos(n) : p[1] < q[1]

\* C28 witness: the lowering returned the clusters of a nested derivative,
\* whose outer accumulate equation reads the inner accumulator, and a
\* rewritten equation that reads two accumulators.
C28_Witness ==
    /\ pc = "lowered"
    /\ \E m \in LogIdx : \E n \in LogIdx : ReadsInner(m, n)
    /\ \E m \in LogIdx : \E n \in LogIdx :
          /\ m # n
          /\ st.log[m].acc # st.log[n].acc
          /\ \E q \in OutOf(st.log[n].src) :
                {st.log[m].acc.name, st.log[n].acc.name}
                    \subseteq ReadsOf(processed[q[1]].exprs[q[2]].rhs)

\* Every stencil dimension of expression e is a dimension of ispace.
AllPinned(e, ispace) ==
    LET all == retrieve_dimensions(e)
    IN /\ \E i \in 1..Len(all) : IsStencil(all[i])
       /\ \A i \in 1..Len(all) : IsStencil(all[i]) => InSpace(all[i], ispace)

\* C29 (as claimed): when the equation just processed is the assignment of a
\* derivative all of whose stencil dimensions the source cluster holds, the
\* lowering raised no IndexError and emitted an init and an accumulate
\* cluster over the space of the source cluster, the base unshifted.
C29_PinnedLowers ==
    (/\ pc \in {"lower", "failed"}
     /\ st.src # <<0, 0>>
     /\ st.fault # "AssertionError"
     /\ clusters[st.src[1]].exprs[st.src[2]].rhs.tag = "deriv"
     /\ AllPinned(clusters[st.src[1]].exprs[st.src[2]].rhs,
                  clusters[st.src[1]].ispace))
    => /\ st.fault = "none"
       /\ \E n \in LogIdx :
             LET r == st.log[n]
             IN /\ r.src = st.src
                /\ r.dims = <<>>
                /\ r.init.ispace = r.cspace
                /\ r.accum.ispace = r.cspace
                /\ r.accum.exprs[1].rhs.args[1] = r.base

\* The sparse points behind the positions that the gather mask picks.
GatheredPoints(need) == Take(dist_scatter_mask(need), dist_gather_mask(need))

\* The points that rank r requires, in index order.
RequiredBy(need, r) ==
    LET ids == [i \in 1..Len(need) |-> i - 1]
    IN SelectIdx(ids, LAMBDA i : r \in need[i])

\* The groups of ranks lo..hi one after the other.
RECURSIVE RankGroups(_, _, _)
RankGroups(need, lo, hi) ==
    IF lo > hi THEN <<>>
    ELSE RequiredBy(need, lo) \o RankGroups(need, lo + 1, hi)

\* C30 (as claimed): for every map from rank to required points, what
\* _dist_scatter packs is the groups of the ranks in rank order; the gather
\* mask picks every sparse point once, in the order of the point indices;
\* and _dist_gather of the unchanged values leaves self.data as it was.
C30_ScatterGatherRoundTrip ==
    (sf.pc \in {"scattered", "gathered", "failed"} /\ sf.nprocs > 1) =>
        /\ dist_scatter_mask(sf.need) = RankGroups(sf.need, 0, sf.nprocs - 1)
        /\ GatheredPoints(sf.need) = [i \in 1..Len(sf.need) |-> i - 1]
        /\ sf.pc # "failed"
        /\ sf.pc = "gathered" => sf.data = sf.data0

====
